---- MODULE Spec2Model ----
(***************************************************************************)
(* FRC Stratometer: the match simulation of FrcMatch (src/__init__.py).    *)
(*                                                                         *)
(* One FrcMatch object is modelled: its attributes, the position and the   *)
(* locals of run_game, and the calls a driver makes on it (run_game,       *)
(* reset_field, viz_game).  Times and points are integers (whole seconds,  *)
(* whole points); the strategy is an input that returns, at every call, an *)
(* action result (dtime, dpoints) drawn from the ranges it was built with. *)
(***************************************************************************)
EXTENDS Integers, Sequences, FiniteSets, TLC

VARIABLES
    \* constructor arguments, stashed on the object (lines 80-87)
    strat, gamefunc, gametime, autontime, endgametime,
    \* tracking attributes (lines 90-100); game is the attribute that
    \* reset_field creates (line 112), <<>> while the attribute is absent
    time, score, game, points_auton, points_tele, points_end, status,
    \* run_game: control position and locals (lines 129-181)
    pc, tnow, dtime, dpoints, action,
    \* the robot whose methods the strategy and the actions are (FrcBot)
    bot,
    \* outcome of the last viz_game call: "none", "ValueError" or "figs"
    vizResult,
    \* outcome of the last read of the phase totals: "none" or "read"
    pointsRead,
    \* driver bookkeeping: the calls made on the object, the series the
    \* first completed run left, the number of non-advancing actions
    calls, first, nstall,
    \* per phase of the current run: the actions invoked, the samples the
    \* loop recorded
    invoked, recorded

vars == <<strat, gamefunc, gametime, autontime, endgametime, time, score, game,
          points_auton, points_tele, points_end, status, pc, tnow, dtime,
          dpoints, action, bot, vizResult, pointsRead, calls, first, nstall,
          invoked, recorded>>

\* the attributes of the match that hold results
matchvars == <<time, score, game, points_auton, points_tele, points_end, status>>

(***************************************************************************)
(* Bounds of the model.                                                    *)
(***************************************************************************)
\* run_game calls a driver makes on one object
MaxRuns == 2
\* actions with dtime <= 0 over the life of one object
MaxStall == 2
\* the short match: autonomous period and total game time, in seconds
ShortAuton == 2
ShortGame == 4
\* the longest duration a roll_for_time draw returns
MaxRoll == 1

(***************************************************************************)
(* Program constants: the defaults of FrcMatch.__init__.                   *)
(***************************************************************************)
DefaultGametime == 150
DefaultAutontime == 15
DefaultEndgametime == 130

Last(s) == s[Len(s)]

\* the durations roll_for_time draws: a negative one and a positive one
RollTimes == {0 - 1, MaxRoll}

(***************************************************************************)
(* Strategies.  A strategy is described by the range of the action results *)
(* it can produce; a strategy with one-point ranges is deterministic.      *)
(***************************************************************************)
Range(dtlo, dthi, dplo, dphi) ==
    [kind |-> "range", dtlo |-> dtlo, dthi |-> dthi, dplo |-> dplo, dphi |-> dphi]

Always(dt, dp) == Range(dt, dt, dp, dp)

Deterministic(s) == s.dtlo = s.dthi /\ s.dplo = s.dphi

\* every action takes at least one second
Progressing(s) == s.dtlo >= 1

NonNegative(s) == s.dtlo >= 0 /\ s.dplo >= 0

\* FrcBot().simple_coral_strat as the strategy; the ranges are those of the
\* results of simple_auton, place_coral and get_coral
SimpleCoralStrat ==
    [kind |-> "bot", dtlo |-> 0 - 1, dthi |-> 15, dplo |-> 0, dphi |-> 3 + 3]

\* the matches a driver constructs: FrcMatch(stratfunc, gametime, autontime,
\* endgametime)
Setups ==
    {[strat |-> s, gamefunc |-> "none", gametime |-> DefaultGametime,
      autontime |-> DefaultAutontime, endgametime |-> DefaultEndgametime] :
        s \in {Always(10, 6), Always(1, 0)}}
    \cup
    {[strat |-> s, gamefunc |-> "none", gametime |-> ShortGame,
      autontime |-> ShortAuton, endgametime |-> ShortGame - 1] :
        s \in {Always(1, 1), Always(2, 3), Range(1, 2, 1, 1),
               Range(1, 1, 0 - 1, 0), Range(0, 1, 0, 0), Range(0 - 1, 1, 1, 1),
               Always(0, 1), Range(0 - 1, 0, 0, 0)}}
    \cup
    {[strat |-> SimpleCoralStrat, gamefunc |-> "reefscape", gametime |-> ShortGame,
      autontime |-> ShortAuton, endgametime |-> ShortGame - 1]}

\* init_game_status (reefscape, lines 11-29), with nloaded_coral = 3
init_game_status(s) ==
    [coral_l1 |-> 0, coral_l2 |-> 0, coral_l3 |-> 0, coral_l4 |-> 0,
     coral_floor |-> 3, coral_station |-> 60 - 3] @@ s

\* self.gamefunc(self.status) (lines 103, 124): the default lambda x: None
\* leaves the status as it is
CallGamefunc(f, s) == IF f = "reefscape" THEN init_game_status(s) ELSE s

\* the status dictionary __init__ creates (lines 98-100)
InitStatus(a, g, e) ==
    [time |-> 0, auton |-> TRUE, endgame |-> FALSE, autontime |-> a,
     gametime |-> g, endgametime |-> e, gameover |-> FALSE]

\* the status dictionary reset_field creates (lines 120-121)
ResetStatus ==
    [time |-> 0, auton |-> TRUE, endgame |-> FALSE, gameover |-> FALSE]

\* FrcBot.__init__ (reefscape, lines 37-43)
FrcBot == [has_coral |-> TRUE, has_algae |-> FALSE, auton_complete |-> FALSE]

\* the counts at the start of a run
NoneYet == [auton |-> 0, tele |-> 0]

Init ==
    \E su \in Setups :
        /\ strat = su.strat
        /\ gamefunc = su.gamefunc
        /\ gametime = su.gametime
        /\ autontime = su.autontime
        /\ endgametime = su.endgametime
        /\ time = <<0>>
        /\ score = <<0>>
        /\ game = <<>>
        /\ points_auton = 0
        /\ points_tele = 0
        /\ points_end = 0
        /\ status = CallGamefunc(su.gamefunc,
                                InitStatus(su.autontime, su.gametime, su.endgametime))
        /\ pc = "idle"
        /\ tnow = 0
        /\ dtime = 0
        /\ dpoints = 0
        /\ vizResult = "none"
        /\ pointsRead = "none"
        /\ calls = <<>>
        /\ first = [time |-> <<>>, score |-> <<>>]
        /\ nstall = 0
        /\ action = "none"
        /\ bot = FrcBot
        /\ invoked = NoneYet
        /\ recorded = NoneYet

NumRuns == Cardinality({i \in 1..Len(calls) : calls[i] = "run"})

\* no call is executing: the driver may make the next one
AtRest == pc \in {"idle", "done"}

(***************************************************************************)
(* reset_field (lines 105-124).  It assigns self.game, not self.time.      *)
(***************************************************************************)
reset_field ==
    /\ AtRest
    /\ game' = <<0>>
    /\ score' = <<0>>
    /\ points_auton' = 0
    /\ points_tele' = 0
    /\ points_end' = 0
    /\ status' = CallGamefunc(gamefunc, ResetStatus)
    /\ pc' = "idle"
    /\ vizResult' = "none"
    /\ pointsRead' = "none"
    /\ calls' = IF calls # <<>> /\ Last(calls) = "reset" THEN calls
                ELSE Append(calls, "reset")
    /\ UNCHANGED <<strat, gamefunc, gametime, autontime, endgametime, time, tnow,
                   dtime, dpoints, first, nstall,
                   action, bot, invoked, recorded>>

(***************************************************************************)
(* run_game (lines 126-181).                                               *)
(***************************************************************************)
\* faulty variant: the loop goes on when the clock is on the boundary
InPhase_Inclusive(t, boundary) == t <= boundary

\* the loop conditions (lines 132, 157)
InPhase(t, boundary) == t < boundary

\* faulty variant: a sample that lands on the boundary is recorded too
Scored_Inclusive(t, boundary) == t <= boundary

\* faulty variant: every sample is recorded
Scored_Always(t, boundary) == TRUE

\* the condition under which a sample is recorded (lines 143, 168)
Scored(t, boundary) == t < boundary

\* faulty variant: an action that does not advance the clock costs a second
Advance_Floor(t, dt) == t + (IF dt < 1 THEN 1 ELSE dt)

\* the clock after an action (lines 140, 165)
Advance(t, dt) == t + dt

\* faulty variant: the points are subtracted
NewScore_Minus(sc, dp) == Last(sc) - dp

\* the score and time appended for a recorded action (lines 144-145, 169-170)
NewScore(sc, dp) == Last(sc) + dp
NewTime(tm, dt) == Last(tm) + dt

(***************************************************************************)
(* What one pass of a loop obtains from the strategy: action =             *)
(* strat(status), then dtime, dpoints = action(status) (lines 134-137).    *)
(* An outcome names the action, its result, and the status and the robot   *)
(* as the action leaves them.                                              *)
(***************************************************************************)
Outcome(name, dt, dp, st, b) ==
    [action |-> name, dt |-> dt, dp |-> dp, status |-> st, bot |-> b]

\* a strategy given by the ranges of its results
RangeOutcomes(st, b) ==
    {Outcome("action", dt, dp, st, b) :
        dt \in strat.dtlo..strat.dthi, dp \in strat.dplo..strat.dphi}

\* roll_for_time (lines 14-31): a draw from a normal distribution, any
\* duration, negative ones included
roll_for_time(avg, stddev) == RollTimes

\* roll_for_success (lines 34-49): rate > rand(), rand() in [0, 1); the
\* rate is in percent
roll_for_success(rate) ==
    {ok \in BOOLEAN : (ok => rate > 0) /\ (~ok => rate < 100)}

\* FrcBot.get_coral (reefscape, lines 45-51)
get_coral(st, b) ==
    IF b.has_coral
    THEN {Outcome("get_coral", 0, 0, st, b)}
    ELSE {Outcome("get_coral", t, 0, st, [b EXCEPT !.has_coral = ok]) :
            ok \in roll_for_success(90), t \in roll_for_time(10, 5)}

\* FrcBot.place_coral (reefscape, lines 53-64)
place_coral(st, b) ==
    IF ~b.has_coral
    THEN {Outcome("place_coral", 0, 0, st, b)}
    ELSE {Outcome("place_coral", t, 2 * (IF ok THEN 1 ELSE 0), st,
                  [b EXCEPT !.has_coral = FALSE]) :
            ok \in roll_for_success(75), t \in roll_for_time(5, 2)}

\* FrcBot.simple_auton (reefscape, lines 76-94), with duration = 10
simple_auton(st, b) ==
    IF b.auton_complete
    THEN {Outcome("simple_auton", 15, 0, st, b)}
    ELSE {Outcome("simple_auton", 10, 3 + 3,
                  IF b.has_coral THEN [st EXCEPT !.coral_l1 = @ + 1] ELSE st,
                  [b EXCEPT !.has_coral = FALSE, !.auton_complete = TRUE])}

\* faulty variant: the teleop branches are swapped
simple_coral_strat_Swapped(st, b) ==
    IF st.auton THEN "simple_auton"
    ELSE IF b.has_coral THEN "get_coral" ELSE "place_coral"

\* FrcBot.simple_coral_strat (reefscape, lines 96-109): the action chosen
simple_coral_strat(st, b) ==
    IF st.auton THEN "simple_auton"
    ELSE IF b.has_coral THEN "place_coral" ELSE "get_coral"

\* action(self.status) for the action the robot's strategy chose
Perform(name, st, b) ==
    CASE name = "simple_auton" -> simple_auton(st, b)
      [] name = "place_coral" -> place_coral(st, b)
      [] name = "get_coral" -> get_coral(st, b)

\* lines 134 and 137 (159 and 162)
Pass(st, b) ==
    IF strat.kind = "range" THEN RangeOutcomes(st, b)
    ELSE Perform(simple_coral_strat(st, b), st, b)

\* line 129
RunGame ==
    /\ AtRest
    /\ NumRuns < MaxRuns
    /\ tnow' = 0
    /\ pc' = "auton"
    /\ vizResult' = "none"
    /\ pointsRead' = "none"
    /\ calls' = Append(calls, "run")
    /\ action' = "none"
    /\ invoked' = NoneYet
    /\ recorded' = NoneYet
    /\ UNCHANGED <<strat, gamefunc, gametime, autontime, endgametime, matchvars,
                   dtime, dpoints, first, nstall,
                   bot>>

\* faulty variant: the clock is advanced only inside the `if`, for a
\* recorded action
LoopBody_Held(boundary, o) ==
    /\ o.dt > 0 \/ nstall < MaxStall
    /\ nstall' = IF o.dt > 0 THEN nstall ELSE nstall + 1
    /\ action' = o.action
    /\ dtime' = o.dt
    /\ dpoints' = o.dp
    /\ status' = o.status
    /\ bot' = o.bot
    /\ IF Scored(Advance(tnow, o.dt), boundary)
       THEN /\ tnow' = Advance(tnow, o.dt)
            /\ score' = Append(score, NewScore(score, o.dp))
            /\ time' = Append(time, NewTime(time, o.dt))
            /\ invoked' = [invoked EXCEPT ![pc] = @ + 1]
            /\ recorded' = [recorded EXCEPT ![pc] = @ + 1]
       ELSE UNCHANGED <<tnow, score, time, invoked, recorded>>
    /\ UNCHANGED <<strat, gamefunc, gametime, autontime, endgametime, game,
                   points_auton, points_tele, points_end, pc, vizResult,
                   pointsRead, calls, first>>

\* faulty variant: what a dropped action did to the status and the robot is
\* undone
LoopBody_Rollback(boundary, o) ==
    /\ o.dt > 0 \/ nstall < MaxStall
    /\ nstall' = IF o.dt > 0 THEN nstall ELSE nstall + 1
    /\ action' = o.action
    /\ dtime' = o.dt
    /\ dpoints' = o.dp
    /\ invoked' = [invoked EXCEPT ![pc] = @ + 1]
    /\ tnow' = Advance(tnow, o.dt)
    /\ IF Scored(tnow', boundary)
       THEN /\ score' = Append(score, NewScore(score, o.dp))
            /\ time' = Append(time, NewTime(time, o.dt))
            /\ recorded' = [recorded EXCEPT ![pc] = @ + 1]
            /\ status' = o.status
            /\ bot' = o.bot
       ELSE UNCHANGED <<score, time, recorded, status, bot>>
    /\ UNCHANGED <<strat, gamefunc, gametime, autontime, endgametime, game,
                   points_auton, points_tele, points_end, pc, vizResult,
                   pointsRead, calls, first>>

\* one pass of a phase loop, for the outcome o of the action (lines 134-145,
\* 159-170)
LoopBody(boundary, o) ==
    /\ o.dt > 0 \/ nstall < MaxStall
    /\ nstall' = IF o.dt > 0 THEN nstall ELSE nstall + 1
    /\ action' = o.action
    /\ dtime' = o.dt
    /\ dpoints' = o.dp
    /\ status' = o.status
    /\ bot' = o.bot
    /\ invoked' = [invoked EXCEPT ![pc] = @ + 1]
    /\ tnow' = Advance(tnow, o.dt)
    /\ IF Scored(tnow', boundary)
       THEN /\ score' = Append(score, NewScore(score, o.dp))
            /\ time' = Append(time, NewTime(time, o.dt))
            /\ recorded' = [recorded EXCEPT ![pc] = @ + 1]
       ELSE UNCHANGED <<score, time, recorded>>
    /\ UNCHANGED <<strat, gamefunc, gametime, autontime, endgametime, game,
                   points_auton, points_tele, points_end, pc, vizResult,
                   pointsRead, calls, first>>

\* the autonomous loop (lines 132-145)
AutonStep ==
    /\ pc = "auton"
    /\ InPhase(tnow, autontime)
    /\ \E o \in Pass(status, bot) : LoopBody(autontime, o)

\* faulty variant: the clock keeps the overshoot of the last action
AutonExit_NoHardSet ==
    /\ pc = "auton"
    /\ ~InPhase(tnow, autontime)
    /\ points_auton' = Last(score)
    /\ status' = [status EXCEPT !.auton = FALSE]
    /\ pc' = "tele"
    /\ UNCHANGED <<strat, gamefunc, gametime, autontime, endgametime, time, score, game,
                   points_tele, points_end, tnow, dtime, dpoints, vizResult,
                   pointsRead, calls, first, nstall,
                   action, bot, invoked, recorded>>

\* faulty variant: status['auton'] is left True
AutonExit_NoFlip ==
    /\ pc = "auton"
    /\ ~InPhase(tnow, autontime)
    /\ points_auton' = Last(score)
    /\ tnow' = autontime
    /\ pc' = "tele"
    /\ UNCHANGED <<strat, gamefunc, gametime, autontime, endgametime, time,
                   score, game, points_tele, points_end, status, dtime, dpoints,
                   vizResult, pointsRead, calls, first, nstall, action, bot,
                   invoked, recorded>>

\* after the autonomous loop (lines 147-154)
AutonExit ==
    /\ pc = "auton"
    /\ ~InPhase(tnow, autontime)
    /\ points_auton' = Last(score)
    /\ tnow' = autontime
    /\ status' = [status EXCEPT !.auton = FALSE]
    /\ pc' = "tele"
    /\ UNCHANGED <<strat, gamefunc, gametime, autontime, endgametime, time, score, game,
                   points_tele, points_end, dtime, dpoints, vizResult, pointsRead, calls,
                   first, nstall,
                   action, bot, invoked, recorded>>

\* the teleop loop (lines 157-170)
TeleStep ==
    /\ pc = "tele"
    /\ InPhase(tnow, gametime)
    /\ \E o \in Pass(status, bot) : LoopBody(gametime, o)

\* faulty variant: the autonomous points are not subtracted
TelePoints_NoSub(sc, pa) == Last(sc)

\* the teleop total (line 173)
TelePoints(sc, pa) == Last(sc) - pa

\* faulty variant: the game is declared over before the final sample
TeleExit_Early ==
    /\ pc = "tele"
    /\ ~InPhase(tnow, gametime)
    /\ points_tele' = TelePoints(score, points_auton)
    /\ status' = [status EXCEPT !.gameover = TRUE]
    /\ pc' = "endgame"
    /\ UNCHANGED <<strat, gamefunc, gametime, autontime, endgametime, time, score, game,
                   points_auton, points_end, tnow, dtime, dpoints,
                   vizResult, pointsRead, calls, first, nstall,
                   action, bot, invoked, recorded>>

\* after the teleop loop (line 173)
TeleExit ==
    /\ pc = "tele"
    /\ ~InPhase(tnow, gametime)
    /\ points_tele' = TelePoints(score, points_auton)
    /\ pc' = "endgame"
    /\ UNCHANGED <<strat, gamefunc, gametime, autontime, endgametime, time, score, game,
                   points_auton, points_end, status, tnow, dtime, dpoints,
                   vizResult, pointsRead, calls, first, nstall,
                   action, bot, invoked, recorded>>

\* faulty variant: no end-of-match sample
EndGame_Skip ==
    /\ pc = "endgame"
    /\ pc' = "seal"
    /\ UNCHANGED <<strat, gamefunc, gametime, autontime, endgametime, time,
                   score, game, points_auton, points_tele, points_end, status,
                   tnow, dtime, dpoints, vizResult, pointsRead, calls, first,
                   nstall, action, bot, invoked, recorded>>

\* the end-of-match sample (lines 177-178)
EndGame ==
    /\ pc = "endgame"
    /\ score' = Append(score, Last(score))
    /\ time' = Append(time, Last(time))
    /\ pc' = "seal"
    /\ UNCHANGED <<strat, gamefunc, gametime, autontime, endgametime, game, points_auton,
                   points_tele, points_end, status, tnow, dtime, dpoints,
                   vizResult, pointsRead, calls, first, nstall,
                   action, bot, invoked, recorded>>

\* line 181, and the return: the locals are gone
GameOver ==
    /\ pc = "seal"
    /\ status' = [status EXCEPT !.gameover = TRUE]
    /\ pc' = "done"
    /\ tnow' = 0
    /\ dtime' = 0
    /\ dpoints' = 0
    /\ action' = "none"
    /\ first' = IF NumRuns = 1 THEN [time |-> time, score |-> score] ELSE first
    /\ UNCHANGED <<strat, gamefunc, gametime, autontime, endgametime, time, score, game,
                   points_auton, points_tele, points_end, vizResult, pointsRead, calls, nstall,
                   bot, invoked, recorded>>

(***************************************************************************)
(* viz_game (lines 183-219): raises ValueError unless the game is over,    *)
(* and otherwise only reads the match.                                     *)
(***************************************************************************)
\* faulty variant: the guard is missing
VizAllowed_Always(st) == TRUE

\* the guard of viz_game (line 188)
VizAllowed(st) == st.gameover

viz_game ==
    /\ AtRest
    /\ vizResult' = IF VizAllowed(status) THEN "figs" ELSE "ValueError"
    /\ pointsRead' = "none"
    /\ UNCHANGED <<strat, gamefunc, gametime, autontime, endgametime, matchvars, pc,
                   tnow, dtime, dpoints, calls, first, nstall,
                   action, bot, invoked, recorded>>

(***************************************************************************)
(* The phase totals are plain attributes of the object (lines 93-95): a    *)
(* caller reads match.points_auton, points_tele, points_end directly.      *)
(***************************************************************************)
read_points ==
    /\ AtRest
    /\ pointsRead' = "read"
    /\ vizResult' = "none"
    /\ UNCHANGED <<strat, gamefunc, gametime, autontime, endgametime, matchvars, pc,
                   tnow, dtime, dpoints, calls, first, nstall,
                   action, bot, invoked, recorded>>

\* the steps of an executing run_game
RunStep ==
    \/ AutonStep
    \/ AutonExit
    \/ TeleStep
    \/ TeleExit
    \/ EndGame
    \/ GameOver

Next ==
    \/ RunGame
    \/ AutonStep
    \/ AutonExit
    \/ TeleStep
    \/ TeleExit
    \/ EndGame
    \/ GameOver
    \/ reset_field
    \/ viz_game
    \/ read_points

Spec == Init /\ [][Next]_vars

\* a call that has started runs to its end
FairSpec == Init /\ [][Next]_vars /\ WF_vars(RunStep)

(***************************************************************************)
(* Properties.                                                             *)
(***************************************************************************)
\* run_game is executing
InRun == pc \in {"auton", "tele", "endgame", "seal"}

\* the boundary of the phase whose loop is executing
Boundary == IF pc = "auton" THEN autontime ELSE gametime

\* a pass of a phase loop is about to execute
InLoop == pc \in {"auton", "tele"} /\ tnow < Boundary

\* every run_game after the first was preceded by reset_field
CleanRuns == \A i \in 2..Len(calls) : calls[i] = "run" => calls[i - 1] = "reset"

NonDecreasing(s) == \A i \in 1..(Len(s) - 1) : s[i] <= s[i + 1]

IsPrefix(s, t) == Len(s) <= Len(t) /\ SubSeq(t, 1, Len(s)) = s

\* C1: in the autonomous and in the teleop loop, the sample of an action is
\* appended if and only if the clock after adding the action's dt is
\* strictly less than the phase boundary; an action that lands on or
\* crosses the boundary appends nothing and its dpoints reach no score.
C1_BoundaryPolicy ==
    [][InLoop =>
        /\ tnow' = tnow + dtime'
        /\ IF tnow' < Boundary
           THEN /\ score' = Append(score, Last(score) + dpoints')
                /\ time' = Append(time, Last(time) + dtime')
           ELSE /\ score' = score
                /\ time' = time
        /\ UNCHANGED <<points_auton, points_tele, points_end>>]_vars

\* C1 witness: an autonomous action with points landed exactly on the
\* boundary and nothing was recorded
C1_Witness ==
    /\ pc = "auton"
    /\ tnow = autontime
    /\ dtime > 0
    /\ dpoints > 0
    /\ calls = <<"run">>
    /\ score = <<0>>
    /\ time = <<0>>

\* C2: for every completed run_game on a freshly constructed match,
\* points_auton + points_tele is the last element of the score series and
\* points_end is 0.
C2_PhaseTotals ==
    (pc = "done" /\ calls = <<"run">>) =>
        /\ points_auton + points_tele = Last(score)
        /\ points_end = 0

\* C2 witness: a completed first run that scored in both phases
C2_Witness ==
    /\ pc = "done"
    /\ calls = <<"run">>
    /\ points_auton > 0
    /\ points_tele > 0

\* C3: after a completed run, reset_field() and then run_game() with a
\* deterministic strategy produce time and score series identical to those
\* of the first run.
C3_ResetIdempotent ==
    (pc = "done" /\ calls = <<"run", "reset", "run">> /\ Deterministic(strat)) =>
        /\ time = first.time
        /\ score = first.score

\* C4: the time series and the score series always have the same length.
C4_SameLength == Len(time) = Len(score)

\* C5: when every action returns dt >= 0 and dpoints >= 0, both series are
\* non-decreasing at every point of run_game, they start with the seed pair
\* (0, 0), and run_game only appends to them.
C5_Monotone ==
    /\ [](NonNegative(strat) =>
            /\ NonDecreasing(time)
            /\ NonDecreasing(score)
            /\ time[1] = 0
            /\ score[1] = 0)
    /\ [][(NonNegative(strat) /\ InRun) =>
            /\ IsPrefix(time, time')
            /\ IsPrefix(score, score')]_vars

\* C5 witness: a run with non-negative results in which both series have
\* grown strictly
C5_Witness ==
    /\ NonNegative(strat)
    /\ InRun
    /\ Len(time) >= 3
    /\ Len(score) >= 3
    /\ time[2] < time[3]
    /\ score[2] < score[3]

\* C6: after every step of run_game, for actions returning dt >= 0, the
\* status time and every recorded sample time t satisfy 0 <= t <= gametime.
\* Stated for matches that are reset before they are run again.
C6_TimeInRange ==
    (strat.dtlo >= 0 /\ CleanRuns) =>
        /\ 0 <= status.time /\ status.time <= gametime
        /\ \A i \in 1..Len(time) : 0 <= time[i] /\ time[i] <= gametime

\* the end-of-match sample has been appended: each series ends with a
\* repeated element
FinalSampleAppended ==
    /\ Len(score) >= 2
    /\ score[Len(score)] = score[Len(score) - 1]
    /\ Len(time) >= 2
    /\ time[Len(time)] = time[Len(time) - 1]

\* the step is a call of reset_field
IsReset == AtRest /\ pc' = "idle" /\ score' = <<0>> /\ Last(calls') = "reset"

\* C7 as stated: status['gameover'] is false from construction until
\* run_game has appended the final sample, is set to true at the end of the
\* run, after that append, and is never set back to false afterwards.
C7_Original ==
    /\ ~status.gameover
    /\ [][/\ (~status.gameover /\ status'.gameover) =>
                (pc = "seal" /\ pc' = "done" /\ FinalSampleAppended)
          /\ status.gameover => status'.gameover]_vars

\* C7 amended: status['gameover'] is false from construction; it becomes
\* true only at the end of run_game, after the final sample was appended;
\* once true it stays true until reset_field is called, and reset_field is
\* the only operation that sets it back to false.
C7_GameOverLifecycle ==
    /\ ~status.gameover
    /\ [][/\ (~status.gameover /\ status'.gameover) =>
                (pc = "seal" /\ pc' = "done" /\ FinalSampleAppended)
          /\ (status.gameover /\ ~status'.gameover) => IsReset
          /\ (pc = "seal" /\ pc' = "done") => status'.gameover]_vars

\* C7 witness: a match that was run to the end and then reset, so that
\* gameover went from false to true and back to false
C7_Witness ==
    /\ calls = <<"run", "reset">>
    /\ ~status.gameover
    /\ first.score # <<>>

\* C8 as stated: a read of the final results (viz_game, the phase totals)
\* while status['gameover'] is false fails with an error and leaves the
\* match unchanged; once gameover is true the read is allowed.
C8_Original ==
    [][/\ vizResult' # "none" =>
            /\ UNCHANGED matchvars
            /\ vizResult' = "ValueError" <=> ~status.gameover
       /\ pointsRead' # "none" =>
            /\ UNCHANGED matchvars
            /\ pointsRead' = "ValueError" <=> ~status.gameover]_vars

\* C8 amended: viz_game while status['gameover'] is false fails with
\* ValueError and leaves the match unchanged, and once gameover is true it
\* is allowed; the phase totals are plain attributes, whose read never
\* fails and changes nothing, whatever gameover is.
C8_VizGuard ==
    [][/\ vizResult' # "none" =>
            /\ UNCHANGED matchvars
            /\ vizResult' = "ValueError" <=> ~status.gameover
            /\ vizResult' = "figs" <=> status.gameover
       /\ pointsRead' # "none" =>
            /\ UNCHANGED matchvars
            /\ pointsRead' = "read"]_vars

\* C8 witness: viz_game was refused on a match that had been run and reset
C8_Witness ==
    /\ vizResult = "ValueError"
    /\ ~status.gameover
    /\ calls = <<"run", "reset">>

\* C9: if every action has dt >= d for some fixed d > 0, run_game
\* terminates: both loops exit and status['gameover'] is eventually true.
C9_Terminates ==
    (InRun /\ Progressing(strat)) ~> (pc = "done" /\ status.gameover)

\* C9 witness: a progressing strategy whose action results vary is in the
\* middle of the teleop loop
C9_Witness ==
    /\ Progressing(strat)
    /\ strat.dtlo < strat.dthi
    /\ pc = "tele"
    /\ tnow > autontime
    /\ tnow < gametime

\* the match of end-to-end scenario 1, in its first run
Scenario1 ==
    /\ autontime = 15
    /\ gametime = 150
    /\ strat = Always(10, 6)
    /\ calls = <<"run">>

\* C10: with autontime = 15, gametime = 150 and a strategy whose action
\* always returns (10, 6), the autonomous phase records exactly one sample
\* (10, 6), the clock is hard-set to 15 at the phase transition, and
\* points_auton = 6.
C10_Scenario1 ==
    Scenario1 =>
        /\ (pc = "auton" /\ ~(tnow < autontime)) =>
                (time = <<0, 10>> /\ score = <<0, 6>>)
        /\ (pc = "tele" /\ Len(time) = 2) => tnow = 15
        /\ pc \in {"tele", "endgame", "seal", "done"} =>
                /\ points_auton = 6
                /\ SubSeq(time, 1, 2) = <<0, 10>>
                /\ SubSeq(score, 1, 2) = <<0, 6>>
                /\ Len(time) > 2 => time[3] > 15

\* C10 witness: scenario 1 right after the phase transition
C10_Witness ==
    /\ Scenario1
    /\ pc = "tele"
    /\ tnow = 15
    /\ points_auton = 6
    /\ time = <<0, 10>>
    /\ score = <<0, 6>>

\* the match of end-to-end scenario 2, in its first run
Scenario2 ==
    /\ autontime = 15
    /\ gametime = 150
    /\ strat = Always(1, 0)
    /\ calls = <<"run">>

\* C11 as stated: with autontime = 15 and gametime = 150, a strategy whose
\* action always returns (1, 0) yields points_tele = 0 and exactly 135
\* recorded teleop samples.
C11_Original ==
    (Scenario2 /\ pc = "done") =>
        /\ points_tele = 0
        /\ recorded.tele = 135

\* C11 amended: the strategy yields points_tele = 0 and exactly 134 samples
\* recorded by the teleop loop: 135 actions are invoked and the last one,
\* which lands on gametime, is dropped.  With the end-of-match sample, 135
\* elements follow the autonomous ones in the series.
C11_Scenario2 ==
    (Scenario2 /\ pc \in {"endgame", "seal", "done"}) =>
        /\ points_tele = 0
        /\ recorded.tele = 134
        /\ invoked.tele = 135
        /\ pc = "done" => Len(score) = 1 + recorded.auton + 135
        /\ pc = "done" => Len(time) = 1 + recorded.auton + 135

\* C11 witness: scenario 2 has run to its end
C11_Witness ==
    /\ Scenario2
    /\ pc = "done"
    /\ invoked.tele = 135
    /\ recorded.auton = 14

\* C12: at the autonomous-to-teleop transition the clock is set to exactly
\* autontime, whatever the overshoot of the last autonomous action, and
\* status['auton'] is False before the first teleop strategy call, so the
\* first teleop action starts from clock = autontime.
C12_Transition ==
    /\ [][(pc = "auton" /\ pc' = "tele") =>
            (tnow' = autontime /\ ~status'.auton /\ tnow >= autontime)]_vars
    /\ [](pc = "tele" => ~status.auton)
    /\ []((pc = "tele" /\ invoked.tele = 0) => tnow = autontime)

\* C12 witness: the last autonomous action overshot the boundary by more
\* than a second, and the teleop loop is about to make its first call
C12_Witness ==
    /\ pc = "tele"
    /\ invoked.tele = 0
    /\ invoked.auton = 1
    /\ dtime > autontime + 1
    /\ tnow = autontime
    /\ ~status.auton

\* C13: every sample appended inside a phase loop records the clock after
\* the action: the appended time equals tnow.  Stated for the first run of
\* a match whose actions each take at least a second.
C13_SampleIsClock ==
    [][(InLoop /\ calls = <<"run">> /\ Progressing(strat)
            /\ Len(time') > Len(time)) =>
            Last(time') = tnow']_vars

\* C14: at every strategy call of run_game, status['time'] is the
\* simulation clock.  Stated for the first run of a match whose actions
\* each take at least a second.
C14_StatusTime ==
    (InLoop /\ calls = <<"run">> /\ Progressing(strat)) => status.time = tnow

\* no reset_field among the calls made
NoReset == \A i \in 1..Len(calls) : calls[i] # "reset"

\* the control positions of run_game, in order
PhaseRank ==
    [idle |-> 0, auton |-> 1, tele |-> 2, endgame |-> 3, seal |-> 4, done |-> 5]

\* C15: over any sequence of run_game calls on one match, the autonomous
\* loop never executes with status['auton'] = False, status['auton'] never
\* goes from False back to True, and the match passes the autonomous phase,
\* teleop and the end of the game in that order, re-entering none.
C15_ForwardPhases ==
    [][NoReset' =>
        /\ (pc = "auton" /\ invoked' # invoked) => status.auton
        /\ ~status.auton => ~status'.auton
        /\ PhaseRank[pc] <= PhaseRank[pc']]_vars

\* C16: after the teleop loop exits, run_game appends exactly one final
\* sample whose time and score equal the last recorded ones, so the
\* completed series end with two identical pairs, and the end of the game
\* adds no points.
C16_FinalSample ==
    /\ [][pc = "endgame" =>
            /\ score' = Append(score, Last(score))
            /\ time' = Append(time, Last(time))
            /\ UNCHANGED <<points_auton, points_tele, points_end>>]_vars
    /\ [][(pc = "seal" \/ (pc = "tele" /\ ~(tnow < gametime))) =>
            UNCHANGED <<time, score>>]_vars
    /\ [](pc \in {"seal", "done"} =>
            /\ FinalSampleAppended
            /\ points_end = 0
            /\ points_auton + points_tele = Last(score)
            /\ CleanRuns => Len(score) = 1 + recorded.auton + recorded.tele + 1)

\* C16 witness: a completed run that scored, its series ending with the
\* repeated sample
C16_Witness ==
    /\ pc = "done"
    /\ calls = <<"run">>
    /\ Len(score) >= 4
    /\ Last(score) > 0
    /\ score[Len(score)] = score[Len(score) - 1]
    /\ score[Len(score) - 1] > score[Len(score) - 2]
    /\ time[Len(time)] = time[Len(time) - 1]

\* C17: if the strategy returns actions with dt <= 0 indefinitely while the
\* clock is below the phase boundary, run_game never terminates: an action
\* with dt <= 0 leaves the loop running, and with only such actions the
\* loop is never exited and status['gameover'] never becomes true.
C17_NoTermination ==
    /\ [][(InLoop /\ invoked' # invoked /\ dtime' <= 0) =>
            (pc' = pc /\ tnow' < Boundary)]_vars
    /\ [](strat.dthi <= 0 => (pc \in {"idle", "auton"} /\ ~status.gameover))

\* C17 witness: after as many non-advancing actions as the model allows,
\* the autonomous loop is still running
C17_Witness ==
    /\ strat.dthi <= 0
    /\ pc = "auton"
    /\ invoked.auton = MaxStall
    /\ nstall = MaxStall
    /\ tnow < autontime
    /\ ~status.gameover

\* C18: in each phase loop exactly one action is left unrecorded, the last
\* one invoked in the phase: the loop exits right after the first dropped
\* sample, and the actions invoked in a run are the recorded in-loop
\* samples plus 2.
C18_OneDropped ==
    /\ [][(InLoop /\ invoked' # invoked /\ recorded' = recorded) =>
            (pc' = pc /\ ~(tnow' < Boundary))]_vars
    /\ []((pc = "auton" /\ tnow < autontime) => invoked.auton = recorded.auton)
    /\ []((pc = "tele" /\ tnow < gametime) => invoked.tele = recorded.tele)
    /\ [](pc \in {"tele", "endgame", "seal", "done"} =>
            invoked.auton = recorded.auton + 1)
    /\ [](pc \in {"endgame", "seal", "done"} =>
            /\ invoked.tele = recorded.tele + 1
            /\ invoked.auton + invoked.tele = recorded.auton + recorded.tele + 2)

\* C18 witness: a completed run with recorded samples in both phases
C18_Witness ==
    /\ pc = "done"
    /\ recorded.auton >= 1
    /\ recorded.tele >= 1
    /\ invoked.auton + invoked.tele = recorded.auton + recorded.tele + 2

\* C19: an action whose sample is dropped at a phase boundary is still
\* executed in full: simple_auton with duration >= autontime increments
\* status['coral_l1'] and sets auton_complete while points_auton stays 0.
C19_DroppedSideEffects ==
    /\ [][(InLoop /\ invoked' # invoked /\ action' = "simple_auton"
            /\ ~bot.auton_complete) =>
            /\ bot'.auton_complete
            /\ ~bot'.has_coral
            /\ status'.coral_l1 =
                   status.coral_l1 + (IF bot.has_coral THEN 1 ELSE 0)]_vars
    /\ []((strat.kind = "bot" /\ calls = <<"run">> /\ autontime <= 10
            /\ pc \in {"tele", "endgame", "seal", "done"}) =>
            /\ points_auton = 0
            /\ recorded.auton = 0
            /\ status.coral_l1 = 1
            /\ bot.auton_complete
            /\ ~status.auton)

\* C19 witness: simple_auton was dropped at the autonomous boundary and the
\* coral it delivered is on the reef
C19_Witness ==
    /\ strat.kind = "bot"
    /\ pc = "tele"
    /\ action = "simple_auton"
    /\ invoked.auton = 1
    /\ recorded.auton = 0
    /\ points_auton = 0
    /\ status.coral_l1 = 1
    /\ bot.auton_complete
    /\ ~bot.has_coral

\* C20: under simple_coral_strat, place_coral is selected only when
\* has_coral is true and get_coral only when it is false, so the (0, 0)
\* guard branch of either action is never taken, and every place_coral
\* leaves has_coral false.
C20_CoralStrat ==
    [][/\ (invoked' # invoked /\ action' = "place_coral") =>
            (bot.has_coral /\ ~bot'.has_coral /\ ~status.auton)
       /\ (invoked' # invoked /\ action' = "get_coral") =>
            (~bot.has_coral /\ ~status.auton)]_vars

\* C20 witness: in teleop the robot fetched a coral and placed it for 2
\* points
C20_Witness ==
    /\ pc = "tele"
    /\ action = "place_coral"
    /\ dpoints = 2
    /\ ~bot.has_coral
    /\ recorded.tele >= 2

====
